---------------------------- MODULE Spec2Model ----------------------------
(***************************************************************************)
(* A model of the navigation mesh of src/src/nav_mesh.rs: mesh             *)
(* construction (NavMesh::new), per-triangle cost, the triangle-level      *)
(* search (find_path_triangles_custom), the point-level path query         *)
(* (find_path_custom with its two refinements) and the path arithmetic.    *)
(*                                                                         *)
(* Scalars are exact rationals extended with NaN and the two infinities;   *)
(* rounding of the floating-point type is not modelled.                    *)
(***************************************************************************)
EXTENDS Integers, Sequences, FiniteSets, TLC

VARIABLES
    parallel,   \* the build's "parallel" feature: iter!/into_iter! are rayon's
    input,      \* the (vertices, triangles) handed to NavMesh::new
    mesh,       \* the built NavMesh, the build error, or NoMesh before the call
    call,       \* the last operation called, with its arguments
    ret         \* what that operation returned

vars == <<parallel, input, mesh, call, ret>>

(***************************************************************************)
(* Scalar: <<n, d>> with d > 0 in lowest terms is the rational n/d;        *)
(* <<0, 0>> is NaN, <<1, 0>> is +inf, <<-1, 0>> is -inf.                   *)
(***************************************************************************)
RECURSIVE GCD(_, _)
GCD(a, b) == IF b = 0 THEN a ELSE GCD(b, a % b)

Abs(x) == IF x < 0 THEN -x ELSE x

Sgn(x) == IF x < 0 THEN -1 ELSE IF x > 0 THEN 1 ELSE 0

Norm(n, d) ==
    LET g == GCD(Abs(n), Abs(d))
        s == Sgn(d)
    IN  <<s * (Abs(n) \div g) * Sgn(n), Abs(d) \div g>>

R(n) == <<n, 1>>

Q(n, d) == Norm(n, d)

NaN == <<0, 0>>

PosInf == <<1, 0>>

NegInf == <<-1, 0>>

IsNaN(a) == a = NaN

IsFinite(a) == a[2] # 0

Neg(a) == <<-a[1], a[2]>>

Add(a, b) ==
    IF IsFinite(a) /\ IsFinite(b)
    THEN LET g == GCD(a[2], b[2])
         IN  Norm(a[1] * (b[2] \div g) + b[1] * (a[2] \div g), (a[2] \div g) * b[2])
    ELSE IF IsNaN(a) \/ IsNaN(b) THEN NaN
    ELSE IF ~IsFinite(a) /\ ~IsFinite(b) THEN (IF a = b THEN a ELSE NaN)
    ELSE IF IsFinite(a) THEN b ELSE a

Sub(a, b) == Add(a, Neg(b))

Mul(a, b) ==
    IF IsFinite(a) /\ IsFinite(b)
    THEN IF a[1] = 0 \/ b[1] = 0 THEN R(0)
         ELSE LET g1 == GCD(Abs(a[1]), b[2])
                  g2 == GCD(Abs(b[1]), a[2])
              IN  <<(a[1] \div g1) * (b[1] \div g2), (a[2] \div g2) * (b[2] \div g1)>>
    ELSE IF IsNaN(a) \/ IsNaN(b) THEN NaN
    ELSE IF a[1] = 0 \/ b[1] = 0 THEN NaN
    ELSE <<Sgn(a[1]) * Sgn(b[1]), 0>>

Div(a, b) ==
    IF IsNaN(a) \/ IsNaN(b) THEN NaN
    ELSE IF ~IsFinite(b) THEN (IF IsFinite(a) THEN R(0) ELSE NaN)
    ELSE IF b[1] = 0 THEN (IF a[1] = 0 THEN NaN ELSE <<Sgn(a[1]), 0>>)
    ELSE Mul(a, <<Sgn(b[1]) * b[2], Abs(b[1])>>)

\* n1/d1 < n2/d2 for positive denominators, by continued fractions (no products).
RECURSIVE FracLt(_, _, _, _)
FracLt(n1, d1, n2, d2) ==
    LET q1 == n1 \div d1
        q2 == n2 \div d2
        r1 == n1 % d1
        r2 == n2 % d2
    IN  IF q1 # q2 THEN q1 < q2
        ELSE IF r2 = 0 THEN FALSE
        ELSE IF r1 = 0 THEN TRUE
        ELSE FracLt(d2, r2, d1, r1)

Lt(a, b) ==
    IF IsNaN(a) \/ IsNaN(b) THEN FALSE
    ELSE IF IsFinite(a) /\ IsFinite(b) THEN FracLt(a[1], a[2], b[1], b[2])
    ELSE IF ~IsFinite(a) THEN a = NegInf /\ b # NegInf
    ELSE b = PosInf

Le(a, b) == ~IsNaN(a) /\ ~IsNaN(b) /\ ~Lt(b, a)

Gt(a, b) == Lt(b, a)

Ge(a, b) == Le(b, a)

\* f32::max / f32::min: a NaN operand is ignored.
Max(a, b) == IF IsNaN(a) THEN b ELSE IF IsNaN(b) THEN a ELSE IF Lt(a, b) THEN b ELSE a

Min(a, b) == IF IsNaN(a) THEN b ELSE IF IsNaN(b) THEN a ELSE IF Lt(b, a) THEN b ELSE a

\* The exact square root of a non-negative integer that is a perfect square.
ISqrt(n) == CHOOSE k \in 0..n : k * k = n

IsSquare(n) == \E k \in 0..n : k * k = n

\* sqrt on the scalars whose root is rational; the model's inputs keep to those.
Sqrt(a) ==
    IF IsNaN(a) THEN NaN
    ELSE IF a = PosInf THEN PosInf
    ELSE IF a[1] < 0 THEN NaN
    ELSE <<ISqrt(a[1]), ISqrt(a[2])>>

HasSqrt(a) == IsFinite(a) /\ a[1] >= 0 /\ IsSquare(a[1]) /\ IsSquare(a[2])

\* 1e-5 as the ratio 1 / ZeroThresholdInv.
ZeroThresholdInv == 100000

ZERO_TRESHOLD == <<1, ZeroThresholdInv>>

(***************************************************************************)
(* NavVec3: a triple of scalars, with the operations nav_mesh.rs uses.     *)
(***************************************************************************)
Vec(x, y, z) == <<x, y, z>>

VI(x, y, z) == <<R(x), R(y), R(z)>>

VZero == VI(0, 0, 0)

VAdd(a, b) == <<Add(a[1], b[1]), Add(a[2], b[2]), Add(a[3], b[3])>>

VSub(a, b) == <<Sub(a[1], b[1]), Sub(a[2], b[2]), Sub(a[3], b[3])>>

VScale(a, s) == <<Mul(a[1], s), Mul(a[2], s), Mul(a[3], s)>>

VDivS(a, s) == <<Div(a[1], s), Div(a[2], s), Div(a[3], s)>>

VMul(a, b) == <<Mul(a[1], b[1]), Mul(a[2], b[2]), Mul(a[3], b[3])>>

Dot(a, b) == Add(Add(Mul(a[1], b[1]), Mul(a[2], b[2])), Mul(a[3], b[3]))

Cross(a, b) ==
    <<Sub(Mul(a[2], b[3]), Mul(a[3], b[2])),
      Sub(Mul(a[3], b[1]), Mul(a[1], b[3])),
      Sub(Mul(a[1], b[2]), Mul(a[2], b[1]))>>

SqrMagnitude(a) == Dot(a, a)

Magnitude(a) == Sqrt(SqrMagnitude(a))

VIsFinite(a) == IsFinite(a[1]) /\ IsFinite(a[2]) /\ IsFinite(a[3])

\* same_as: componentwise equality within ZERO_TRESHOLD.
SameAs(a, b) ==
    \A i \in 1..3 :
        LET d == Sub(a[i], b[i])
        IN  Lt(d, ZERO_TRESHOLD) /\ Lt(Neg(ZERO_TRESHOLD), d)

\* project: the parameter of the point's projection on the line from -> to.
Project(p, from, to) ==
    LET diff == VSub(to, from)
    IN  Div(Dot(VSub(p, from), diff), SqrMagnitude(diff))

\* unproject: from + (to - from) * t.
Unproject(from, to, t) == VAdd(from, VScale(VSub(to, from), t))


\* A unit vector kept as direction and squared length: [v, l2] stands for
\* v / sqrt(l2), and for the zero vector when l2 = 0 (normalize of zero).
Normalize(a) == [v |-> a, l2 |-> SqrMagnitude(a)]

\* unit x vector and unit x unit, still of the form direction / sqrt(l2).
UCross(u, b) == [v |-> Cross(u.v, b), l2 |-> u.l2]

UUCross(u, w) == [v |-> Cross(u.v, w.v), l2 |-> Mul(u.l2, w.l2)]

\* x / sqrt(l2) < t for rationals x, l2 >= 0 and t, decided on the squares
\* (x is a dot product with the direction of a unit vector of squared length l2).
SurdLt(x, l2, t) ==
    IF l2 = R(0) THEN Lt(R(0), t)
    ELSE IF Le(x, R(0)) /\ Gt(t, R(0)) THEN TRUE
    ELSE IF Ge(x, R(0)) /\ Le(t, R(0)) THEN FALSE
    ELSE IF Gt(x, R(0))
         THEN \* both positive: x^2 / l2 < t^2, as (x^2 / l2) / t < t
              Lt(Div(Div(Mul(x, x), l2), t), t)
         ELSE \* both negative: x^2 / l2 > t^2
              Gt(Div(Div(Mul(x, x), l2), Neg(t)), Neg(t))

\* x / sqrt(l2) > t
SurdGt(x, l2, t) ==
    SurdLt(Neg(x), l2, Neg(t))

\* is_above_plane: strictly above the plane through origin with that normal.
IsAbovePlane(p, origin, u) ==
    \E x \in {Dot(u.v, VSub(p, origin))} : SurdGt(x, u.l2, ZERO_TRESHOLD)

\* project_on_plane: the orthogonal projection on the plane {origin, normal}.
ProjectOnPlane(p, origin, u) ==
    IF u.l2 = R(0) THEN p
    ELSE VSub(p, VScale(u.v, Div(Dot(VSub(p, origin), u.v), u.l2)))

\* n . m < 1 - ZERO_TRESHOLD for two unit vectors.
IsFold(n, m) ==
    SurdLt(Dot(n.v, m.v), Mul(n.l2, m.l2), Sub(R(1), ZERO_TRESHOLD))

(***************************************************************************)
(* NavConnection: an unordered pair of indices in canonical order.         *)
(***************************************************************************)
NavConnection(a, b) == IF a <= b THEN <<a, b>> ELSE <<b, a>>

\* vertices[i] and triangles[i] for the 0-based indices of the code.
At(seq, i) == seq[i + 1]

Indices(seq) == 0 .. (Len(seq) - 1)

RECURSIVE SeqSum(_, _)
SeqSum(seq, zero) ==
    IF seq = <<>> THEN zero ELSE VAdd(SeqSum(SubSeq(seq, 1, Len(seq) - 1), zero), seq[Len(seq)])

\* The elements of a set of integer tuples in ascending (lexicographic) order.
RECURSIVE SortedSeq(_)
TupleLess(x, y) ==
    \E k \in 1..Len(x) : x[k] < y[k] /\ \A j \in 1..(k - 1) : x[j] = y[j]

SortedSeq(S) ==
    IF S = {} THEN <<>>
    ELSE LET m == CHOOSE x \in S : \A y \in S \ {x} : TupleLess(x, y)
         IN  <<m>> \o SortedSeq(S \ {m})

(***************************************************************************)
(* NavArea                                                                 *)
(***************************************************************************)
CalculateCenter(a, b, c) == VDivS(VAdd(VAdd(a, b), c), R(3))

\* BadSlot with the slots tested in the reverse order.
BadSlotReversed(triangle, nverts) ==
    IF triangle.third >= nverts THEN 2
    ELSE IF triangle.second >= nverts THEN 1
    ELSE IF triangle.first >= nverts THEN 0
    ELSE -1

\* The first out-of-bounds slot of a triangle (0, 1, 2), or -1.
BadSlot(triangle, nverts) ==
    IF triangle.first >= nverts THEN 0
    ELSE IF triangle.second >= nverts THEN 1
    ELSE IF triangle.third >= nverts THEN 2
    ELSE -1

SlotValue(triangle, which) ==
    IF which = 0 THEN triangle.first
    ELSE IF which = 1 THEN triangle.second
    ELSE triangle.third

\* The closure of the areas pass: Err(...) or Ok(NavArea) for triangle i.
AreaOf(vertices, i, triangle) ==
    LET which == BadSlot(triangle, Len(vertices))
    IN  IF which >= 0
        THEN [ok |-> FALSE,
              error |-> [kind |-> "TriangleVerticeIndexOutOfBounds",
                         triangle |-> i, which |-> which,
                         value |-> SlotValue(triangle, which)]]
        ELSE [ok |-> TRUE,
              area |-> [triangle |-> i,
                        cost |-> R(1),
                        center |-> CalculateCenter(At(vertices, triangle.first),
                                                   At(vertices, triangle.second),
                                                   At(vertices, triangle.third))]]

\* collect::<NavResult<Vec<_>>>(): the errors the collection can end with. The
\* sequential iterator stops at the first Err; rayon's returns any of them.
CollectErrors(vertices, triangles, par) ==
    LET bad == {i \in Indices(triangles) : ~AreaOf(vertices, i, At(triangles, i)).ok}
        pick == IF par THEN bad ELSE {i \in bad : \A j \in bad : i <= j}
    IN  {AreaOf(vertices, i, At(triangles, i)).error : i \in pick}

Areas(vertices, triangles) ==
    [k \in 1..Len(triangles) |-> AreaOf(vertices, k - 1, triangles[k]).area]

(***************************************************************************)
(* Edge bucketing: {edge: [triangle index]}                                *)
(***************************************************************************)
EdgeA(t) == NavConnection(t.first, t.second)

EdgeB(t) == NavConnection(t.second, t.third)

EdgeC(t) == NavConnection(t.third, t.first)

TriangleEdges(t) == <<EdgeA(t), EdgeB(t), EdgeC(t)>>

\* The indices pushed under edge e, in push order.
RECURSIVE EdgeTris(_, _, _)
EdgeTris(triangles, n, e) ==
    IF n = 0 THEN <<>>
    ELSE LET t == triangles[n]
             own == SelectSeq(TriangleEdges(t), LAMBDA x : x = e)
         IN  EdgeTris(triangles, n - 1, e) \o [k \in 1..Len(own) |-> n - 1]

Edges(triangles) ==
    LET keys == UNION {{EdgeA(triangles[k]), EdgeB(triangles[k]), EdgeC(triangles[k])} :
                       k \in 1..Len(triangles)}
    IN  [e \in keys |-> EdgeTris(triangles, Len(triangles), e)]

(***************************************************************************)
(* Triangle connections                                                    *)
(***************************************************************************)
\* EdgePairs that pairs only the neighbours in the triangle list.
EdgePairsNeighbours(tris) ==
    {NavConnection(tris[i], tris[i + 1]) :
        i \in {j \in 1..(Len(tris) - 1) : tris[j] # tris[j + 1]}}

\* The keys one edge contributes: every pair a != b of its triangle list.
EdgePairs(tris) ==
    {NavConnection(tris[p[1]], tris[p[2]]) :
        p \in {q \in (1..Len(tris)) \X (1..Len(tris)) : tris[q[1]] # tris[q[2]]}}

\* The edges that insert key k: the later insert replaces the earlier, in the
\* arbitrary order of the hash map, so any of them may be the one kept.
ConnectionEdges(edges, k) == {e \in DOMAIN edges : k \in EdgePairs(edges[e])}

ConnectionKeys(edges) == UNION {EdgePairs(edges[e]) : e \in DOMAIN edges}

ConnectionWeight(areas, k) ==
    SqrMagnitude(VSub(At(areas, k[2]).center, At(areas, k[1]).center))

\* Every map the two collect() calls can produce.
Connections(edges, areas) ==
    LET keys == ConnectionKeys(edges)
        shared == {e \in DOMAIN edges : EdgePairs(edges[e]) # {}}
    IN  {[k \in keys |-> [weight |-> ConnectionWeight(areas, k), verts |-> pick[k]]] :
            pick \in {f \in [keys -> shared] :
                        \A k \in keys : f[k] \in ConnectionEdges(edges, k)}}

(***************************************************************************)
(* Graph: one node per triangle, one edge per entry of the connection map. *)
(***************************************************************************)
\* GraphOf that adds every connection in both directions.
GraphOfBothDirections(ntriangles, connections) ==
    LET keys == SortedSeq(DOMAIN connections)
    IN  [nodes |-> ntriangles,
         edges |-> [i \in 1..(2 * Len(keys)) |->
                      LET k == keys[(i + 1) \div 2]
                      IN  [a |-> IF i % 2 = 1 THEN k[1] ELSE k[2],
                           b |-> IF i % 2 = 1 THEN k[2] ELSE k[1],
                           weight |-> connections[k].weight]]]

GraphOf(ntriangles, connections) ==
    LET keys == SortedSeq(DOMAIN connections)
    IN  [nodes |-> ntriangles,
         edges |-> [i \in 1..Len(keys) |->
                      [a |-> keys[i][1], b |-> keys[i][2],
                       weight |-> connections[keys[i]].weight]]]


(***************************************************************************)
(* NavSpatialObject                                                        *)
(***************************************************************************)
NavSpatialObject(index, a, b, c) ==
    LET ab == VSub(b, a)
        bc == VSub(c, b)
        ca == VSub(a, c)
        normal == Normalize(Cross(VSub(a, b), VSub(a, c)))
    IN  [index |-> index, a |-> a, b |-> b, c |-> c,
         ab |-> ab, bc |-> bc, ca |-> ca,
         normal |-> normal,
         dab |-> UCross(normal, ab),
         dbc |-> UCross(normal, bc),
         dca |-> UCross(normal, ca)]

InUnit(t) == Le(R(0), t) /\ Le(t, R(1))

\* (CHOOSE r \in {e : x \in {v}} : TRUE is e with x bound to the value of v:
\* TLC computes v once, where a LET would compute it at every use.)
ClosestPoint(o, point) ==
    CHOOSE r \in
        {IF Gt(pca, R(1)) /\ Lt(pab, R(0)) THEN o.a
         ELSE IF Gt(pab, R(1)) /\ Lt(pbc, R(0)) THEN o.b
         ELSE IF Gt(pbc, R(1)) /\ Lt(pca, R(0)) THEN o.c
         ELSE IF InUnit(pab) /\ ~IsAbovePlane(point, o.a, o.dab)
              THEN Unproject(o.a, o.b, pab)
         ELSE IF InUnit(pbc) /\ ~IsAbovePlane(point, o.b, o.dbc)
              THEN Unproject(o.b, o.c, pbc)
         ELSE IF InUnit(pca) /\ ~IsAbovePlane(point, o.c, o.dca)
              THEN Unproject(o.c, o.a, pca)
         ELSE ProjectOnPlane(point, o.a, o.normal) :
         pab \in {Project(point, o.a, o.b)},
         pbc \in {Project(point, o.b, o.c)},
         pca \in {Project(point, o.c, o.a)}} : TRUE

Distance2(o, point) == SqrMagnitude(VSub(point, ClosestPoint(o, point)))

Spatials(vertices, triangles) ==
    [k \in 1..Len(triangles) |->
        NavSpatialObject(k - 1,
                         At(vertices, triangles[k].first),
                         At(vertices, triangles[k].second),
                         At(vertices, triangles[k].third))]

(***************************************************************************)
(* hard_edges: {triangle index: [(from, to)]}                              *)
(***************************************************************************)
HardEdgePlanes(vertices, edges, triangle) ==
    (IF Len(edges[EdgeA(triangle)]) < 2
     THEN <<<<At(vertices, triangle.first), At(vertices, triangle.second)>>>>
     ELSE <<>>)
    \o
    (IF Len(edges[EdgeB(triangle)]) < 2
     THEN <<<<At(vertices, triangle.second), At(vertices, triangle.third)>>>>
     ELSE <<>>)
    \o
    (IF Len(edges[EdgeC(triangle)]) < 2
     THEN <<<<At(vertices, triangle.third), At(vertices, triangle.first)>>>>
     ELSE <<>>)

HardEdges(vertices, triangles, edges) ==
    LET keep == {i \in Indices(triangles) :
                    HardEdgePlanes(vertices, edges, At(triangles, i)) # <<>>}
    IN  [i \in keep |-> HardEdgePlanes(vertices, edges, At(triangles, i))]

Origin(vertices) == VDivS(SeqSum(vertices, VZero), R(Len(vertices)))

(***************************************************************************)
(* NavMesh::new: the set of results the call can return.                   *)
(***************************************************************************)
NoMesh == [built |-> "no"]

NavMeshNew(vertices, triangles, par) ==
    LET errors == CollectErrors(vertices, triangles, par)
        areas == Areas(vertices, triangles)
        edges == Edges(triangles)
    IN  IF errors # {}
        THEN {[built |-> "err", error |-> e] : e \in errors}
        ELSE {[built |-> "ok",
               vertices |-> vertices,
               triangles |-> triangles,
               areas |-> areas,
               connections |-> conns,
               graph |-> GraphOf(Len(triangles), conns),
               spatials |-> Spatials(vertices, triangles),
               hard_edges |-> HardEdges(vertices, triangles, edges),
               origin |-> Origin(vertices)] :
              conns \in Connections(edges, areas)}

(***************************************************************************)
(* Inputs                                                                  *)
(***************************************************************************)
\* The six vertices of the documented fixture.
VertexPool ==
    <<VI(0, 0, 0), VI(1, 0, 0), VI(2, 0, 1), VI(0, 1, 0), VI(1, 1, 0), VI(2, 1, 1)>>

Tri(a, b, c) == [first |-> a, second |-> b, third |-> c]

\* Triangles the build inputs are drawn from: the fixture's four, triangles
\* that share an edge with them in either orientation, three triangles on one
\* edge, triangles that repeat a vertex, and indices past every vertex list.
TrianglePool ==
    {Tri(0, 1, 4), Tri(4, 3, 0), Tri(1, 2, 5), Tri(5, 4, 1),
     Tri(0, 1, 3), Tri(1, 0, 2), Tri(4, 1, 0),
     Tri(0, 1, 0), Tri(2, 2, 3), Tri(6, 1, 7)}

MaxVerts == 5

MaxTris == 3

RECURSIVE SeqsUpTo(_, _)
SeqsUpTo(S, n) ==
    IF n = 0 THEN {<<>>}
    ELSE LET shorter == SeqsUpTo(S, n - 1)
         IN  shorter \cup {Append(q, x) : q \in shorter, x \in S}

BuildInputs ==
    {[vertices |-> SubSeq(VertexPool, 1, nv), triangles |-> ts] :
        nv \in 0..(IF MaxVerts < Len(VertexPool) THEN MaxVerts ELSE Len(VertexPool)),
        ts \in SeqsUpTo(TrianglePool, MaxTris)}

NoCall == [op |-> "none"]

InitBuild ==
    /\ parallel \in BOOLEAN
    /\ input \in BuildInputs
    /\ mesh = NoMesh
    /\ call = NoCall
    /\ ret = NoCall

\* The caller is between two calls: the methods are synchronous, so the next
\* call starts after the result of the last one has been taken.
Idle == call = NoCall

\* NavMesh::new(vertices, triangles)
New ==
    /\ Idle
    /\ mesh = NoMesh
    /\ mesh' \in NavMeshNew(input.vertices, input.triangles, parallel)
    /\ call' = [op |-> "new"]
    /\ ret' = [op |-> "new", ok |-> mesh'.built = "ok"]
    /\ UNCHANGED <<parallel, input>>

\* The caller takes the result of the call.
Return ==
    /\ ~Idle
    /\ call' = NoCall
    /\ ret' = NoCall
    /\ UNCHANGED <<parallel, input, mesh>>

NextBuild == New \/ Return

SpecBuild == InitBuild /\ [][NextBuild]_vars


(***************************************************************************)
(* set_area_cost                                                           *)
(***************************************************************************)
\* SetAreaCostResult that writes the cost to every area.
SetAreaCostResultAll(m, index, cost) ==
    IF index >= Len(m.areas)
    THEN [mesh |-> m, ret |-> [kind |-> "panic"]]
    ELSE [mesh |-> [m EXCEPT !.areas = [k \in 1..Len(m.areas) |->
                                           [@[k] EXCEPT !.cost = Max(cost, R(0))]]],
          ret |-> [kind |-> "value", old |-> At(m.areas, index).cost]]

\* SetAreaCostResult that stores the cost as it is given.
SetAreaCostResultUnclamped(m, index, cost) ==
    IF index >= Len(m.areas)
    THEN [mesh |-> m, ret |-> [kind |-> "panic"]]
    ELSE [mesh |-> [m EXCEPT !.areas[index + 1].cost = cost],
          ret |-> [kind |-> "value", old |-> At(m.areas, index).cost]]

\* let area = &mut self.areas[index] aborts on an index past the areas.
SetAreaCostResult(m, index, cost) ==
    IF index >= Len(m.areas)
    THEN [mesh |-> m, ret |-> [kind |-> "panic"]]
    ELSE [mesh |-> [m EXCEPT !.areas[index + 1].cost = Max(cost, R(0))],
          ret |-> [kind |-> "value", old |-> At(m.areas, index).cost]]

(***************************************************************************)
(* petgraph's astar over the triangle graph, as find_path_triangles_custom *)
(* calls it: zero heuristic, the goal test on the popped node, a closed    *)
(* set, and the edge cost of the closure. Scores are the scalars >= 0,     *)
(* SCALAR_MAX (the largest finite scalar) and +inf.                        *)
(***************************************************************************)
SCALAR_MAX == <<2, 0>>

CostAdd(x, y) ==
    IF x = PosInf \/ y = PosInf THEN PosInf
    ELSE IF x = SCALAR_MAX /\ y = SCALAR_MAX THEN PosInf
    ELSE IF x = SCALAR_MAX \/ y = SCALAR_MAX THEN SCALAR_MAX
    ELSE Add(x, y)

CostLt(x, y) ==
    IF x = PosInf THEN FALSE
    ELSE IF y = PosInf THEN TRUE
    ELSE IF x = SCALAR_MAX THEN FALSE
    ELSE IF y = SCALAR_MAX THEN TRUE
    ELSE Lt(x, y)

\* EdgeCost that leaves out the cost of the target triangle.
EdgeCostSourceOnly(m, filter, a, b, w) ==
    IF <<a, b>> \notin filter
    THEN Mul(w, At(m.areas, a).cost)
    ELSE SCALAR_MAX

\* EdgeCost that falls as the costs of the two triangles rise.
EdgeCostDiscounted(m, filter, a, b, w) ==
    IF <<a, b>> \notin filter
    THEN Div(w, Add(R(1), Mul(At(m.areas, a).cost, At(m.areas, b).cost)))
    ELSE SCALAR_MAX

\* The closure handed to astar. A filter is the set of (a, b) it rejects.
EdgeCost(m, filter, a, b, w) ==
    IF <<a, b>> \notin filter
    THEN Mul(Mul(w, At(m.areas, a).cost), At(m.areas, b).cost)
    ELSE SCALAR_MAX

\* Incident that has an edge of weight 1 from node to every other node.
IncidentComplete(graph, node) ==
    [i \in 1..(graph.nodes - 1) |->
        [target |-> IF i - 1 < node THEN i - 1 ELSE i, weight |-> R(1)]]

\* graph.edges(node): the edges at node, each with node as its source.
Incident(graph, node) ==
    LET own == SelectSeq(graph.edges, LAMBDA e : e.a = node \/ e.b = node)
    IN  [i \in 1..Len(own) |->
            [target |-> IF own[i].a = node THEN own[i].b ELSE own[i].a,
             weight |-> own[i].weight]]

RECURSIVE Relax(_, _, _, _, _, _)
Relax(m, filter, node, inc, i, st) ==
    IF i > Len(inc) THEN st
    ELSE LET next == inc[i].target
         IN  IF next \in st.visited THEN Relax(m, filter, node, inc, i + 1, st)
             ELSE LET cost == EdgeCost(m, filter, node, next, inc[i].weight)
                      nscore == CostAdd(st.scores[node], cost)
                      better == next \notin DOMAIN st.scores
                                \/ CostLt(nscore, st.scores[next])
                      score == IF better THEN nscore ELSE st.scores[next]
                  IN  Relax(m, filter, node, inc, i + 1,
                            [st EXCEPT
                               !.scores = IF better THEN (next :> nscore) @@ @ ELSE @,
                               !.pred = IF better THEN (next :> node) @@ @ ELSE @,
                               !.heap = @ \cup {<<score, next>>},
                               !.calls = @ + 1])

RECURSIVE ReconstructPath(_, _)
ReconstructPath(pred, node) ==
    IF node \in DOMAIN pred
    THEN Append(ReconstructPath(pred, pred[node]), node)
    ELSE <<node>>

\* tie: which of the equally scored heap entries the binary heap pops first.
RECURSIVE AStarLoop(_, _, _, _, _)
AStarLoop(m, filter, goal, tie, st) ==
    IF st.heap = {} THEN [kind |-> "none", calls |-> st.calls]
    ELSE LET mins == {e \in st.heap : \A f \in st.heap : ~CostLt(f[1], e[1])}
             node == IF tie = "low"
                     THEN CHOOSE n \in {e[2] : e \in mins} : \A e \in mins : n <= e[2]
                     ELSE CHOOSE n \in {e[2] : e \in mins} : \A e \in mins : n >= e[2]
             top == CHOOSE e \in mins : e[2] = node
             rest == st.heap \ {top}
         IN  IF node = goal
             THEN [kind |-> "some", path |-> ReconstructPath(st.pred, node),
                   cost |-> st.scores[node], calls |-> st.calls]
             ELSE IF node \in st.visited
             THEN AStarLoop(m, filter, goal, tie, [st EXCEPT !.heap = rest])
             ELSE AStarLoop(m, filter, goal, tie,
                            Relax(m, filter, node, Incident(m.graph, node), 1,
                                  [st EXCEPT !.heap = rest, !.visited = @ \cup {node}]))

AStar(m, filter, start, goal, tie) ==
    AStarLoop(m, filter, goal, tie,
              [heap |-> {<<R(0), start>>}, scores |-> (start :> R(0)),
               pred |-> <<>>, visited |-> {}, calls |-> 0])

\* FindPathTrianglesCustomResult that finds no corridor from a triangle to itself.
FindPathTrianglesCustomResultNoSelf(m, from, to, filter, tie) ==
    IF to >= m.graph.nodes \/ from >= m.graph.nodes
    THEN [kind |-> "panic", calls |-> 0]
    ELSE IF from = to THEN [kind |-> "none", calls |-> 0]
    ELSE AStar(m, filter, from, to, tie)

\* find_path_triangles_custom: self.nodes[i] aborts on an index past the nodes.
FindPathTrianglesCustomResult(m, from, to, filter, tie) ==
    IF to >= m.graph.nodes \/ from >= m.graph.nodes
    THEN [kind |-> "panic", calls |-> 0]
    ELSE AStar(m, filter, from, to, tie)

\* find_path_triangles: the filter that accepts every edge.
FindPathTrianglesResult(m, from, to, tie) ==
    FindPathTrianglesCustomResult(m, from, to, {}, tie)


(***************************************************************************)
(* Meshes for the queries                                                  *)
(***************************************************************************)
\* The documented fixture: two flat triangles and two on a slope.
Fixture ==
    [vertices |-> VertexPool,
     triangles |-> <<Tri(0, 1, 4), Tri(4, 3, 0), Tri(1, 2, 5), Tri(5, 4, 1)>>]

\* Four triangles around vertex 0: two corridors between opposite triangles.
Ring ==
    [vertices |-> <<VI(1, 1, 0), VI(0, 0, 0), VI(2, 0, 0), VI(3, 3, 0), VI(0, 2, 0)>>,
     triangles |-> <<Tri(0, 1, 2), Tri(0, 2, 3), Tri(0, 3, 4), Tri(0, 4, 1)>>]

\* Three triangles on the edge (0, 1), and a triangle that shares no edge.
Fan ==
    [vertices |-> VertexPool,
     triangles |-> <<Tri(0, 1, 4), Tri(0, 1, 3), Tri(1, 0, 2), Tri(2, 5, 3)>>]

SearchInputs == {Fixture, Ring, Fan}

\* The costs set_area_cost is called with, a negative one among them.
CostValues == {R(-1), R(0), R(1), R(3)}

\* How many areas the model lets differ from the default cost at once.
MaxCostChanges == 2

Changed(m) == {i \in Indices(m.areas) : At(m.areas, i).cost # R(1)}

\* The filters of the model: accept all, reject all, reject one connection in
\* both directions, reject one connection in one direction.
Filters(m) ==
    LET keys == DOMAIN m.connections
        all == {<<k[1], k[2]>> : k \in keys} \cup {<<k[2], k[1]>> : k \in keys}
    IN  {{}, all}
        \cup {{<<k[1], k[2]>>, <<k[2], k[1]>>} : k \in keys}
        \cup {{d} : d \in all}

RejectAll(m) ==
    {<<k[1], k[2]>> : k \in DOMAIN m.connections}
    \cup {<<k[2], k[1]>> : k \in DOMAIN m.connections}

Ties == {"low", "high"}

InitSearch ==
    /\ parallel = FALSE
    /\ input \in SearchInputs
    /\ mesh = NoMesh
    /\ call = NoCall
    /\ ret = NoCall

\* set_area_cost(index, cost)
SetAreaCost ==
    /\ Idle
    /\ mesh.built = "ok"
    /\ \E index \in 0..Len(mesh.areas), cost \in CostValues :
          /\ \/ index \in Changed(mesh)
             \/ index >= Len(mesh.areas)
             \/ Cardinality(Changed(mesh)) < MaxCostChanges
          /\ LET r == SetAreaCostResult(mesh, index, cost)
             IN  /\ mesh' = r.mesh
                 /\ call' = [op |-> "set_area_cost", index |-> index, cost |-> cost,
                             before |-> mesh.areas]
                 /\ ret' = r.ret
    /\ UNCHANGED <<parallel, input>>

\* find_path_triangles(from, to)
FindPathTriangles ==
    /\ Idle
    /\ mesh.built = "ok"
    /\ \E from \in 0..Len(mesh.triangles), to \in 0..Len(mesh.triangles), tie \in Ties :
          /\ call' = [op |-> "find_path_triangles", from |-> from, to |-> to,
                      filter |-> {}, tie |-> tie]
          /\ ret' = FindPathTrianglesResult(mesh, from, to, tie)
    /\ UNCHANGED <<parallel, input, mesh>>

\* find_path_triangles_custom(from, to, filter)
FindPathTrianglesCustom ==
    /\ Idle
    /\ mesh.built = "ok"
    /\ \E from \in 0..Len(mesh.triangles), to \in 0..Len(mesh.triangles), tie \in Ties,
          filter \in Filters(mesh) :
          /\ call' = [op |-> "find_path_triangles_custom", from |-> from, to |-> to,
                      filter |-> filter, tie |-> tie]
          /\ ret' = FindPathTrianglesCustomResult(mesh, from, to, filter, tie)
    /\ UNCHANGED <<parallel, input, mesh>>

NextSearch == New \/ SetAreaCost \/ FindPathTriangles \/ FindPathTrianglesCustom \/ Return

SpecSearch == InitSearch /\ [][NextSearch]_vars


(***************************************************************************)
(* Properties of NavMesh::new, under SpecBuild                             *)
(***************************************************************************)
Built == mesh.built = "ok"

\* The slots <<triangle, which>> of the input that hold an index past the vertices.
Offending ==
    {p \in Indices(input.triangles) \X {0, 1, 2} :
        SlotValue(At(input.triangles, p[1]), p[2]) >= Len(input.vertices)}

OffendingErrors ==
    LET slots == SortedSeq(Offending)
    IN  [i \in 1..Len(slots) |->
            [kind |-> "TriangleVerticeIndexOutOfBounds",
             triangle |-> slots[i][1], which |-> slots[i][2],
             value |-> SlotValue(At(input.triangles, slots[i][1]), slots[i][2])]]

IndicesInBounds ==
    \A k \in 1..Len(mesh.triangles) :
        /\ mesh.triangles[k].first < Len(mesh.vertices)
        /\ mesh.triangles[k].second < Len(mesh.vertices)
        /\ mesh.triangles[k].third < Len(mesh.vertices)

\* C3 as stated: build fails iff some index is out of bounds, the errors it
\* reports are one per offending slot, in index order, and a mesh that was
\* built has every triangle index below the number of vertices.
C3_ErrorPerOffendingSlot ==
    mesh.built # "no" =>
        /\ (mesh.built = "err") <=> (Offending # {})
        /\ mesh.built = "err" => <<mesh.error>> = OffendingErrors
        /\ mesh.built = "ok" => IndicesInBounds

\* C3 amended: build fails iff some index is out of bounds; it then returns one
\* error, which names a triangle with an out-of-bounds index, the first such
\* slot of that triangle and the index in it; that triangle is the first
\* offending one unless the build is parallel. A mesh that was built has every
\* triangle index below the number of vertices.
C3_OneErrorFirstSlot ==
    mesh.built # "no" =>
        /\ (mesh.built = "err") <=> (Offending # {})
        /\ mesh.built = "err" =>
              /\ mesh.error.kind = "TriangleVerticeIndexOutOfBounds"
              /\ <<mesh.error.triangle, mesh.error.which>> \in Offending
              /\ mesh.error.value =
                    SlotValue(At(input.triangles, mesh.error.triangle), mesh.error.which)
              /\ \A p \in Offending :
                    p[1] = mesh.error.triangle => p[2] >= mesh.error.which
              /\ ~parallel => \A p \in Offending : p[1] >= mesh.error.triangle
        /\ mesh.built = "ok" => IndicesInBounds

\* A failed build of an input with several offending slots, whose error is not
\* that of the first one.
C3_Witness ==
    /\ mesh.built = "err"
    /\ Cardinality(Offending) >= 2
    /\ \E p \in Offending : p[1] < mesh.error.triangle

\* The edges of a triangle as sets of vertex indices.
EdgeSets(t) == {{t.first, t.second}, {t.second, t.third}, {t.third, t.first}}

SharesEdge(t, u) ==
    EdgeSets(At(mesh.triangles, t)) \cap EdgeSets(At(mesh.triangles, u)) # {}

Centroid(t) ==
    LET tri == At(mesh.triangles, t)
    IN  VDivS(VAdd(VAdd(At(mesh.vertices, tri.first), At(mesh.vertices, tri.second)),
                   At(mesh.vertices, tri.third)), R(3))

\* C5: the connection map has one entry per unordered pair of distinct
\* triangles that share an edge and no other entry; the vertex edge of an
\* entry is an edge of both triangles, its weight the squared distance of
\* their centroids.
C5_ConnectionMap ==
    Built =>
        /\ DOMAIN mesh.connections =
              {p \in Indices(mesh.triangles) \X Indices(mesh.triangles) :
                  p[1] < p[2] /\ SharesEdge(p[1], p[2])}
        /\ \A k \in DOMAIN mesh.connections :
              LET c == mesh.connections[k]
              IN  /\ {c.verts[1], c.verts[2]} \in EdgeSets(At(mesh.triangles, k[1]))
                  /\ {c.verts[1], c.verts[2]} \in EdgeSets(At(mesh.triangles, k[2]))
                  /\ c.weight = SqrMagnitude(VSub(Centroid(k[2]), Centroid(k[1])))

\* A built mesh with three distinct triangles on one edge and the three
\* connections among them.
C5_Witness ==
    /\ Built
    /\ \E t, u, v \in Indices(mesh.triangles) :
          /\ t < u /\ u < v
          /\ EdgeSets(At(mesh.triangles, t)) \cap EdgeSets(At(mesh.triangles, u))
                \cap EdgeSets(At(mesh.triangles, v)) # {}
          /\ {<<t, u>>, <<t, v>>, <<u, v>>} \subseteq DOMAIN mesh.connections

\* The edges of triangle t that no other triangle contains, as (from, to)
\* vertex pairs in the order (first, second), (second, third), (third, first).
BoundaryEdges(t) ==
    LET tri == At(mesh.triangles, t)
        slots == <<<<tri.first, tri.second>>, <<tri.second, tri.third>>,
                   <<tri.third, tri.first>>>>
        open == SelectSeq(slots, LAMBDA e :
                    \A u \in Indices(mesh.triangles) \ {t} :
                        {e[1], e[2]} \notin EdgeSets(At(mesh.triangles, u)))
    IN  [i \in 1..Len(open) |->
            <<At(mesh.vertices, open[i][1]), At(mesh.vertices, open[i][2])>>]

\* C6 as stated: the boundary-edge list of every triangle holds exactly its
\* edges that no other triangle contains, in slot order, and a triangle has
\* an entry in the map iff that list is not empty.
C6_BoundaryEdges ==
    Built =>
        \A t \in Indices(mesh.triangles) :
            /\ (t \in DOMAIN mesh.hard_edges) <=> (BoundaryEdges(t) # <<>>)
            /\ t \in DOMAIN mesh.hard_edges => mesh.hard_edges[t] = BoundaryEdges(t)

\* C7: the graph has one node per triangle and, for each entry of the
\* connection map, exactly one edge, between the entry's two triangles and
\* with the entry's weight; it has no other edge and no self-loop.
C7_Graph ==
    Built =>
        /\ mesh.graph.nodes = Len(mesh.triangles)
        /\ Len(mesh.graph.edges) = Cardinality(DOMAIN mesh.connections)
        /\ \A k \in DOMAIN mesh.connections :
              Cardinality({i \in 1..Len(mesh.graph.edges) :
                  /\ {mesh.graph.edges[i].a, mesh.graph.edges[i].b} = {k[1], k[2]}
                  /\ mesh.graph.edges[i].weight = mesh.connections[k].weight}) = 1
        /\ \A i \in 1..Len(mesh.graph.edges) :
              /\ mesh.graph.edges[i].a # mesh.graph.edges[i].b
              /\ mesh.graph.edges[i].a \in Indices(mesh.triangles)
              /\ mesh.graph.edges[i].b \in Indices(mesh.triangles)
              /\ NavConnection(mesh.graph.edges[i].a, mesh.graph.edges[i].b)
                    \in DOMAIN mesh.connections

\* A built mesh with several graph edges, two of whose triangles share more
\* than one edge.
C7_Witness ==
    /\ Built
    /\ Len(mesh.graph.edges) >= 2
    /\ \E k \in DOMAIN mesh.connections :
          Cardinality(EdgeSets(At(mesh.triangles, k[1]))
                      \cap EdgeSets(At(mesh.triangles, k[2]))) >= 2


(***************************************************************************)
(* Properties of the triangle search, under SpecSearch                     *)
(***************************************************************************)
ValidQuery ==
    /\ call.from < Len(mesh.triangles)
    /\ call.to < Len(mesh.triangles)

\* u and v are joined by an edge of the graph.
Adjacent(u, v) ==
    \E i \in 1..Len(mesh.graph.edges) :
        {mesh.graph.edges[i].a, mesh.graph.edges[i].b} = {u, v}

\* The triangles reachable from the set S in the graph.
RECURSIVE ReachableFrom(_)
ReachableFrom(S) ==
    LET more == S \cup {v \in Indices(mesh.triangles) : \E u \in S : Adjacent(u, v)}
    IN  IF more = S THEN S ELSE ReachableFrom(more)

\* Every corridor from the end of p to `to` that repeats no triangle.
RECURSIVE Corridors(_, _)
Corridors(p, to) ==
    IF p[Len(p)] = to THEN {p}
    ELSE UNION {Corridors(Append(p, v), to) :
                  v \in {x \in Indices(mesh.triangles) :
                            /\ Adjacent(p[Len(p)], x)
                            /\ \A i \in 1..Len(p) : p[i] # x}}

\* The sum over the steps (u, v) of p of w(u, v) * cost(u) * cost(v).
RECURSIVE CorridorCost(_)
CorridorCost(p) ==
    IF Len(p) < 2 THEN R(0)
    ELSE LET u == p[Len(p) - 1]
             v == p[Len(p)]
         IN  Add(CorridorCost(SubSeq(p, 1, Len(p) - 1)),
                 Mul(Mul(mesh.connections[NavConnection(u, v)].weight,
                         At(mesh.areas, u).cost),
                     At(mesh.areas, v).cost))

IsCorridor(p, from, to) ==
    /\ Len(p) >= 1
    /\ p[1] = from
    /\ p[Len(p)] = to
    /\ \A i \in 1..(Len(p) - 1) : Adjacent(p[i], p[i + 1])

\* C1: find_path_triangles(from, to) returns none exactly when `to` cannot be
\* reached from `from` in the graph; what it returns otherwise is a corridor
\* from `from` to `to` whose reported cost is the sum of its steps' costs and
\* is no more than the cost of any corridor between the two; on the fixture
\* with default costs the corridor from 1 to 2 is [1, 0, 3, 2].
C1_ShortestCorridor ==
    (call.op = "find_path_triangles" /\ ValidQuery) =>
        /\ ret.kind \in {"some", "none"}
        /\ (ret.kind = "none") <=> (call.to \notin ReachableFrom({call.from}))
        /\ ret.kind = "some" =>
              /\ IsCorridor(ret.path, call.from, call.to)
              /\ ret.cost = CorridorCost(ret.path)
              /\ \A q \in Corridors(<<call.from>>, call.to) :
                    ~Lt(CorridorCost(q), ret.cost)
        /\ (input = Fixture /\ Changed(mesh) = {} /\ call.from = 1 /\ call.to = 2) =>
              (ret.kind = "some" /\ ret.path = <<1, 0, 3, 2>>)

\* A search that returned a corridor of three or more triangles on a mesh with
\* changed costs, where some other corridor between the two costs more.
C1_Witness ==
    /\ call.op = "find_path_triangles"
    /\ ValidQuery
    /\ ret.kind = "some"
    /\ Len(ret.path) >= 3
    /\ Changed(mesh) # {}
    /\ \E q \in Corridors(<<call.from>>, call.to) : Lt(ret.cost, CorridorCost(q))

\* C2 as stated: no step (u, v) of a returned corridor is one the filter
\* rejected, and under a filter that rejects every edge the search returns
\* none unless from = to.
C2_FilterVeto ==
    (call.op = "find_path_triangles_custom" /\ ValidQuery) =>
        /\ ret.kind = "some" =>
              \A i \in 1..(Len(ret.path) - 1) :
                  <<ret.path[i], ret.path[i + 1]>> \notin call.filter
        /\ (call.filter = RejectAll(mesh) /\ call.from # call.to) => ret.kind = "none"


(***************************************************************************)
(* Segment predicates of the vector type, as the path refinements use them *)
(***************************************************************************)
\* is_line_between_points: the segment from -> to, seen in the plane with that
\* normal, crosses the edge (a, b) strictly between a and b: a and b lie
\* strictly on opposite sides of the line from -> to, and from and to do not
\* lie strictly on one side of the line a -> b.
IsLineBetweenPoints(from, to, a, b, normal) ==
    \E binormal \in {Cross(VSub(to, from), normal.v)},
       across \in {Cross(VSub(b, a), normal.v)} :
        /\ VIsFinite(binormal) /\ VIsFinite(across)
        /\ Sgn(Dot(binormal, VSub(a, from))[1]) * Sgn(Dot(binormal, VSub(b, from))[1]) < 0
        /\ Sgn(Dot(across, VSub(from, a))[1]) * Sgn(Dot(across, VSub(to, a))[1]) <= 0

NoHit == [some |-> FALSE, point |-> VZero]

\* raycast_line: the point where the segment from -> to meets the plane through
\* a with that normal, if it lies on the segment.
RaycastLine(from, to, a, b, normal) ==
    CHOOSE r \in
        {IF normal.l2 = R(0) \/ denom = R(0) THEN NoHit
         ELSE CHOOSE h \in
                 {IF InUnit(t) THEN [some |-> TRUE, point |-> Unproject(from, to, t)]
                  ELSE NoHit :
                  t \in {Div(Dot(VSub(a, from), normal.v), denom)}} : TRUE :
         denom \in {Dot(VSub(to, from), normal.v)}} : TRUE

(***************************************************************************)
(* find_closest_triangle                                                   *)
(***************************************************************************)
Queries == {"Accuracy", "Closest", "ClosestFirst"}

\* The triangles at the least distance2 from the point (d: the distances).
Nearest(m, point) ==
    UNION {{i \in Indices(m.spatials) :
               \A j \in Indices(m.spatials) : ~Lt(At(d, j), At(d, i))} :
           d \in {[k \in 1..Len(m.spatials) |-> Distance2(m.spatials[k], point)]}}

\* None, the result on an empty mesh.
NoTriangle == [some |-> FALSE]

SomeTriangle(i) == [some |-> TRUE, index |-> i]

\* Every result the query may have. The r-tree breaks ties between equally
\* near triangles in an order of its own; close_neighbor promises a triangle
\* near the point, neither the nearest one nor, off the tree's boxes, any.
FindClosestTriangle(m, point, query) ==
    IF Len(m.spatials) = 0 THEN {NoTriangle}
    ELSE IF query = "ClosestFirst"
    THEN {SomeTriangle(i) : i \in Indices(m.spatials)} \cup {NoTriangle}
    ELSE {SomeTriangle(i) : i \in Nearest(m, point)}

(***************************************************************************)
(* The two refinements of a corridor into a path                           *)
(***************************************************************************)
Modes == {"Accuracy", "MidPoints"}

\* self.connections[&NavConnection(t0, t1)].1, as the two vertices (a, b)
PortalA(m, t0, t1) == At(m.vertices, m.connections[NavConnection(t0, t1)].verts[1])

PortalB(m, t0, t1) == At(m.vertices, m.connections[NavConnection(t0, t1)].verts[2])

NormalOf(m, t) == At(m.spatials, t).normal

\* (a + b) * 0.5
MidPoint(a, b) == VScale(VAdd(a, b), Q(1, 2))

\* if da < db { a } else { b }
Closer(start, a, b) ==
    IF Lt(SqrMagnitude(VSub(start, a)), SqrMagnitude(VSub(start, b))) THEN a ELSE b

\* PartialEq of the vector type: a NaN component equals nothing.
VEq(a, b) == a = b /\ \A i \in 1..3 : ~IsNaN(a[i])

\* Vec::dedup: of every run of equal consecutive points the first is kept.
RECURSIVE Dedup(_)
Dedup(points) ==
    IF Len(points) <= 1 THEN points
    ELSE CHOOSE r \in
            {IF VEq(points[1], rest[1]) THEN rest ELSE <<points[1]>> \o rest :
             rest \in {Dedup(Tail(points))}} : TRUE

PointNode(p) == [kind |-> "Point", p |-> p, a |-> VZero, b |-> VZero, n |-> Normalize(VZero)]

LevelChangeNode(a, b, n) == [kind |-> "LevelChange", p |-> VZero, a |-> a, b |-> b, n |-> n]

(***************************************************************************)
(* find_path_accuracy                                                      *)
(***************************************************************************)
\* The corridor of two triangles.
AccuracyTwo(m, from, to, triangles) ==
    LET a == PortalA(m, triangles[1], triangles[2])
        b == PortalB(m, triangles[1], triangles[2])
        n == NormalOf(m, triangles[1])
        mm == NormalOf(m, triangles[2])
    IN  IF ~IsLineBetweenPoints(from, to, a, b, n)
        THEN <<from, Closer(from, a, b), to>>
        ELSE IF IsFold(n, mm)
        THEN LET hit == RaycastLine(from, to, a, b, UUCross(Normalize(VSub(b, a)), n))
             IN  IF hit.some THEN <<from, hit.point, to>> ELSE <<from, to>>
        ELSE <<from, to>>

\* The loop over triangles.windows(3), from window i on (i counts from 1).
RECURSIVE AccuracyWindows(_, _, _, _, _, _)
AccuracyWindows(m, triangles, i, start, last_normal, nodes) ==
    IF i + 2 > Len(triangles) THEN [start |-> start, nodes |-> nodes]
    ELSE LET a == PortalA(m, triangles[i], triangles[i + 1])
             b == PortalB(m, triangles[i], triangles[i + 1])
             c == PortalA(m, triangles[i + 1], triangles[i + 2])
             d == PortalB(m, triangles[i + 1], triangles[i + 2])
             normal == NormalOf(m, triangles[i + 1])
         IN  IF \/ ~IsLineBetweenPoints(start, c, a, b, normal)
                \/ ~IsLineBetweenPoints(start, d, a, b, normal)
             THEN LET p == Closer(start, a, b)
                  IN  AccuracyWindows(m, triangles, i + 1, p, normal,
                                      Append(nodes, PointNode(p)))
             ELSE IF IsFold(last_normal, normal)
             THEN AccuracyWindows(m, triangles, i + 1, start, normal,
                      Append(nodes,
                             LevelChangeNode(a, b,
                                 UUCross(Normalize(VSub(b, a)),
                                         NormalOf(m, triangles[i])))))
             ELSE AccuracyWindows(m, triangles, i + 1, start, normal, nodes)

\* The block after the loop: the last portal against the target.
AccuracyLast(m, to, triangles, start, nodes) ==
    LET k == Len(triangles)
        a == PortalA(m, triangles[k - 1], triangles[k])
        b == PortalB(m, triangles[k - 1], triangles[k])
        n == NormalOf(m, triangles[k - 1])
        mm == NormalOf(m, triangles[k])
    IN  IF ~IsLineBetweenPoints(start, to, a, b, n)
        THEN Append(nodes, PointNode(Closer(start, a, b)))
        ELSE IF IsFold(n, mm)
        THEN Append(nodes, LevelChangeNode(a, b, UUCross(Normalize(VSub(b, a)), n)))
        ELSE nodes

\* The loop that turns the nodes into points, from node i on.
RECURSIVE AccuracyPoints(_, _, _, _, _)
AccuracyPoints(nodes, i, point, to, points) ==
    IF i > Len(nodes) THEN points
    ELSE IF nodes[i].kind = "Point"
    THEN AccuracyPoints(nodes, i + 1, nodes[i].p, to, Append(points, nodes[i].p))
    ELSE LET later == {j \in (i + 1)..Len(nodes) : nodes[j].kind = "Point"}
             next == IF later = {} THEN to
                     ELSE nodes[CHOOSE j \in later : \A l \in later : j <= l].p
             hit == RaycastLine(point, next, nodes[i].a, nodes[i].b, nodes[i].n)
         IN  AccuracyPoints(nodes, i + 1, point, to,
                            IF hit.some THEN Append(points, hit.point) ELSE points)

FindPathAccuracy(m, from, to, triangles) ==
    IF Len(triangles) = 2 THEN AccuracyTwo(m, from, to, triangles)
    ELSE CHOOSE r \in
            {Dedup(Append(AccuracyPoints(nodes, 1, from, to, <<from>>), to)) :
             nodes \in
                {CHOOSE n \in
                    {AccuracyLast(m, to, triangles, w.start, w.nodes) :
                     w \in {AccuracyWindows(m, triangles, 1, from,
                                            NormalOf(m, triangles[1]), <<>>)}} : TRUE}} :
            TRUE

(***************************************************************************)
(* find_path_midpoints                                                     *)
(***************************************************************************)
\* MidpointsTwo that inserts the portal midpoint in every case.
MidpointsTwoAlways(m, from, to, triangles) ==
    <<from,
      MidPoint(PortalA(m, triangles[1], triangles[2]),
               PortalB(m, triangles[1], triangles[2])),
      to>>

\* The corridor of two triangles.
MidpointsTwo(m, from, to, triangles) ==
    LET a == PortalA(m, triangles[1], triangles[2])
        b == PortalB(m, triangles[1], triangles[2])
        n == NormalOf(m, triangles[1])
        mm == NormalOf(m, triangles[2])
    IN  IF IsFold(n, mm) \/ ~IsLineBetweenPoints(from, to, a, b, n)
        THEN <<from, MidPoint(a, b), to>>
        ELSE <<from, to>>

\* MidpointsWindows that tests the straight line only, never the fold.
RECURSIVE MidpointsWindowsNoFold(_, _, _, _, _, _)
MidpointsWindowsNoFold(m, triangles, i, start, last_normal, points) ==
    IF i + 2 > Len(triangles) THEN [start |-> start, points |-> points]
    ELSE LET a == PortalA(m, triangles[i], triangles[i + 1])
             b == PortalB(m, triangles[i], triangles[i + 1])
             point == MidPoint(a, b)
             normal == NormalOf(m, triangles[i + 1])
             end == MidPoint(PortalA(m, triangles[i + 1], triangles[i + 2]),
                             PortalB(m, triangles[i + 1], triangles[i + 2]))
         IN  IF ~IsLineBetweenPoints(start, end, a, b, normal)
             THEN MidpointsWindowsNoFold(m, triangles, i + 1, point, normal,
                                         Append(points, point))
             ELSE MidpointsWindowsNoFold(m, triangles, i + 1, start, normal, points)

\* The loop over triangles.windows(3), from window i on (i counts from 1).
RECURSIVE MidpointsWindows(_, _, _, _, _, _)
MidpointsWindows(m, triangles, i, start, last_normal, points) ==
    IF i + 2 > Len(triangles) THEN [start |-> start, points |-> points]
    ELSE LET a == PortalA(m, triangles[i], triangles[i + 1])
             b == PortalB(m, triangles[i], triangles[i + 1])
             point == MidPoint(a, b)
             normal == NormalOf(m, triangles[i + 1])
             end == MidPoint(PortalA(m, triangles[i + 1], triangles[i + 2]),
                             PortalB(m, triangles[i + 1], triangles[i + 2]))
         IN  IF IsFold(last_normal, normal)
             THEN MidpointsWindows(m, triangles, i + 1, point, normal,
                                   Append(points, point))
             ELSE IF ~IsLineBetweenPoints(start, end, a, b, normal)
             THEN MidpointsWindows(m, triangles, i + 1, point, normal,
                                   Append(points, point))
             ELSE MidpointsWindows(m, triangles, i + 1, start, normal, points)

\* The block after the loop: the last portal against the target.
MidpointsLast(m, to, triangles, start, points) ==
    LET k == Len(triangles)
        a == PortalA(m, triangles[k - 1], triangles[k])
        b == PortalB(m, triangles[k - 1], triangles[k])
        n == NormalOf(m, triangles[k - 1])
        mm == NormalOf(m, triangles[k])
    IN  IF IsFold(n, mm) \/ ~IsLineBetweenPoints(start, to, a, b, n)
        THEN Append(points, MidPoint(a, b))
        ELSE points

FindPathMidpoints(m, from, to, triangles) ==
    IF Len(triangles) = 2 THEN MidpointsTwo(m, from, to, triangles)
    ELSE CHOOSE r \in
            {Dedup(Append(MidpointsLast(m, to, triangles, w.start, w.points), to)) :
             w \in {MidpointsWindows(m, triangles, 1, from, NormalOf(m, triangles[1]),
                                     <<from>>)}} : TRUE

(***************************************************************************)
(* find_path_custom                                                        *)
(***************************************************************************)
\* None, with what the call did on the way: the number of filter calls and
\* the number of find_closest_triangle calls.
NoPath(calls, lookups) == [kind |-> "none", calls |-> calls, lookups |-> lookups]

\* The call once the two snapped points f, t and the result r of the corridor
\* search are known. Next to the path, the result records what the call
\* computed on the way: the two triangles, the two snapped points, the
\* corridor and the number of filter calls.
FindPathRefined(m, start, end, f, t, r, mode) ==
    IF r.kind # "some" THEN NoPath(r.calls, 2)
    ELSE [kind |-> "some", calls |-> r.calls, lookups |-> 2,
          start |-> start, end |-> end, from |-> f, to |-> t,
          triangles |-> r.path,
          path |-> IF Len(r.path) = 1 THEN <<f, t>>
                   ELSE IF mode = "Accuracy" THEN FindPathAccuracy(m, f, t, r.path)
                   ELSE FindPathMidpoints(m, f, t, r.path)]

\* The call once the two closest triangles are known (a set of one result).
FindPathBetween(m, from, to, start, end, mode, filter, tie) ==
    {FindPathRefined(m, start, end, f, t, r, mode) :
        f \in {ClosestPoint(At(m.spatials, start), from)},
        t \in {ClosestPoint(At(m.spatials, end), to)},
        r \in {FindPathTrianglesCustomResult(m, start, end, filter, tie)}}

\* FindPathCustomResults without the test of from against to.
FindPathCustomResultsNoReject(m, from, to, query, mode, filter, tie) ==
    UNION {IF ~start.some THEN {NoPath(0, 1)}
           ELSE IF ~end.some THEN {NoPath(0, 2)}
           ELSE FindPathBetween(m, from, to, start.index, end.index, mode, filter, tie) :
           start \in FindClosestTriangle(m, from, query),
           end \in FindClosestTriangle(m, to, query)}

\* Every result the call can have: one per choice of the closest triangles.
FindPathCustomResults(m, from, to, query, mode, filter, tie) ==
    IF SameAs(from, to) THEN {NoPath(0, 0)}
    ELSE UNION {IF ~start.some THEN {NoPath(0, 1)}
                ELSE IF ~end.some THEN {NoPath(0, 2)}
                ELSE FindPathBetween(m, from, to, start.index, end.index, mode,
                                     filter, tie) :
                start \in FindClosestTriangle(m, from, query),
                end \in FindClosestTriangle(m, to, query)}

\* find_path: the filter that accepts every edge.
FindPathResults(m, from, to, query, mode, tie) ==
    FindPathCustomResults(m, from, to, query, mode, {}, tie)

(***************************************************************************)
(* Meshes and points for the path queries                                  *)
(***************************************************************************)
\* No vertex and no triangle.
Empty == [vertices |-> <<>>, triangles |-> <<>>]

\* The two flat triangles of the fixture.
Flat ==
    [vertices |-> SubSeq(VertexPool, 1, 5),
     triangles |-> <<Tri(0, 1, 4), Tri(4, 3, 0)>>]

\* One triangle.
Single ==
    [vertices |-> SubSeq(VertexPool, 1, 5),
     triangles |-> <<Tri(0, 1, 4)>>]

PathInputs == {Empty, Fixture, Flat, Single, Ring}

\* Points on the meshes (on a corner, on a shared edge, on the slope), above
\* them and beside them.
PointPool ==
    {VI(0, 1, 0), Vec(Q(3, 2), Q(1, 4), Q(1, 2)), Vec(Q(1, 2), Q(1, 4), R(1)),
     VI(1, 1, 0), VI(2, 2, 0)}

\* Two points that differ and are less than ZERO_TRESHOLD apart.
NearPoints == <<VI(0, 1, 0), Vec(Q(1, 200000), R(1), R(0))>>

\* The (from, to) of the path queries: every pair of the pool, equal points
\* among them, and the two near points in both orders.
PointPairs ==
    (PointPool \X PointPool)
    \cup {<<NearPoints[1], NearPoints[2]>>, <<NearPoints[2], NearPoints[1]>>}

\* The filter of the model's find_path_custom calls rejects every edge;
\* find_path is the call with the filter that accepts every edge.
PathFilters(m) == {RejectAll(m)}

InitPath ==
    /\ parallel = FALSE
    /\ input \in PathInputs
    /\ mesh = NoMesh
    /\ call = NoCall
    /\ ret = NoCall

\* find_path(from, to, query, mode)
FindPath ==
    /\ Idle
    /\ mesh.built = "ok"
    /\ \E pair \in PointPairs, query \in Queries, mode \in Modes, tie \in Ties :
          /\ call' = [op |-> "find_path", from |-> pair[1], to |-> pair[2],
                      query |-> query, mode |-> mode, filter |-> {}, tie |-> tie]
          /\ ret' \in FindPathResults(mesh, pair[1], pair[2], query, mode, tie)
    /\ UNCHANGED <<parallel, input, mesh>>

\* find_path_custom(from, to, query, mode, filter)
FindPathCustom ==
    /\ Idle
    /\ mesh.built = "ok"
    /\ \E pair \in PointPairs, query \in Queries, mode \in Modes, tie \in Ties,
          filter \in PathFilters(mesh) :
          /\ call' = [op |-> "find_path_custom", from |-> pair[1], to |-> pair[2],
                      query |-> query, mode |-> mode, filter |-> filter, tie |-> tie]
          /\ ret' \in FindPathCustomResults(mesh, pair[1], pair[2], query, mode,
                                            filter, tie)
    /\ UNCHANGED <<parallel, input, mesh>>

NextPath == New \/ FindPath \/ FindPathCustom \/ Return

SpecPath == InitPath /\ [][NextPath]_vars

(***************************************************************************)
(* Properties of find_path and find_path_custom, under SpecPath            *)
(***************************************************************************)
\* The last call was a path query and it returned a path.
PathReturned ==
    /\ call.op \in {"find_path", "find_path_custom"}
    /\ ret.kind = "some"

PathEndpointsSnapped ==
    PathReturned =>
        /\ Len(ret.path) >= 1
        /\ ret.path[1] = ClosestPoint(At(mesh.spatials, ret.start), call.from)
        /\ ret.path[Len(ret.path)] = ClosestPoint(At(mesh.spatials, ret.end), call.to)

PathNoConsecutiveDuplicates ==
    PathReturned =>
        \A i \in 1..(Len(ret.path) - 1) : ret.path[i] # ret.path[i + 1]

\* C4: every path that find_path / find_path_custom returns, for corridors of
\* any length, starts at the closest point to `from` on the start triangle,
\* ends at the closest point to `to` on the end triangle, and has no two equal
\* consecutive points.
C4_SnappedEndpointsNoDuplicates ==
    PathEndpointsSnapped /\ PathNoConsecutiveDuplicates

\* The portal of a corridor of two triangles, and the two tests of the claim.
TwoA == PortalA(mesh, ret.triangles[1], ret.triangles[2])

TwoB == PortalB(mesh, ret.triangles[1], ret.triangles[2])

TwoFold == IsFold(NormalOf(mesh, ret.triangles[1]), NormalOf(mesh, ret.triangles[2]))

TwoThrough ==
    IsLineBetweenPoints(ret.from, ret.to, TwoA, TwoB, NormalOf(mesh, ret.triangles[1]))

\* C8: for a corridor of exactly two triangles, if the faces are coplanar and
\* the segment from -> to passes through the portal, both refinements return
\* [from, to]; and MidPoints returns [from, (a + b) / 2, to] exactly when the
\* faces fold or the segment does not pass through the portal.
C8_TwoTriangles ==
    (PathReturned /\ Len(ret.triangles) = 2) =>
        /\ (~TwoFold /\ TwoThrough) => ret.path = <<ret.from, ret.to>>
        /\ call.mode = "MidPoints" =>
              /\ (TwoFold \/ ~TwoThrough) =>
                    ret.path = <<ret.from, MidPoint(TwoA, TwoB), ret.to>>
              /\ ~(TwoFold \/ ~TwoThrough) => ret.path = <<ret.from, ret.to>>

C8_Witness ==
    /\ PathReturned
    /\ Len(ret.triangles) = 2
    /\ call.mode = "Accuracy"
    /\ ~TwoFold
    /\ TwoThrough
    /\ ret.path = <<ret.from, ret.to>>

\* The midpoints of the portals of the corridor, in corridor order.
PortalMidPoints ==
    [i \in 1..(Len(ret.triangles) - 1) |->
        MidPoint(PortalA(mesh, ret.triangles[i], ret.triangles[i + 1]),
                 PortalB(mesh, ret.triangles[i], ret.triangles[i + 1]))]

\* The portals of the corridor whose two faces fold.
FoldPortals ==
    {i \in 1..(Len(ret.triangles) - 1) :
        IsFold(NormalOf(mesh, ret.triangles[i]), NormalOf(mesh, ret.triangles[i + 1]))}

\* s is t with some of its elements left out.
RECURSIVE IsSubSeq(_, _)
IsSubSeq(s, t) ==
    IF s = <<>> THEN TRUE
    ELSE IF t = <<>> THEN FALSE
    ELSE IF s[1] = t[1] THEN IsSubSeq(Tail(s), Tail(t))
    ELSE IsSubSeq(s, Tail(t))

FixtureFrom == VI(0, 1, 0)

FixtureTo == Vec(Q(3, 2), Q(1, 4), Q(1, 2))

FixtureQuery ==
    /\ input = Fixture
    /\ call.op = "find_path"
    /\ call.from = FixtureFrom
    /\ call.to = FixtureTo
    /\ call.query = "Accuracy"
    /\ call.mode = "MidPoints"

\* C9: for every corridor of two or more triangles MidPoints returns from, then
\* some of the portal midpoints in corridor order, then to, and the midpoint
\* of every portal whose two faces fold is among them; on the fixture
\* find_path((0,1,0), (1.5,0.25,0.5), Accuracy, MidPoints) returns
\* [(0,1,0), (1,0.5,0), (1.5,0.25,0.5)].
C9_MidPoints ==
    /\ (PathReturned /\ call.mode = "MidPoints" /\ Len(ret.triangles) >= 2) =>
          /\ Len(ret.path) >= 2
          /\ ret.path[1] = ret.from
          /\ ret.path[Len(ret.path)] = ret.to
          /\ IsSubSeq(SubSeq(ret.path, 2, Len(ret.path) - 1), PortalMidPoints)
          /\ \A i \in FoldPortals :
                \E j \in 1..Len(ret.path) : ret.path[j] = PortalMidPoints[i]
    /\ FixtureQuery =>
          /\ ret.kind = "some"
          /\ ret.path = <<FixtureFrom, Vec(R(1), Q(1, 2), R(0)), FixtureTo>>

C9_Witness ==
    /\ FixtureQuery
    /\ ret.kind = "some"
    /\ ret.triangles = <<1, 0, 3, 2>>
    /\ FoldPortals = {2}
    /\ Len(ret.path) = 3

(***************************************************************************)
(* Path arithmetic: path_length, project_on_path, point_on_path,           *)
(* path_target_point and the two private helpers                           *)
(***************************************************************************)
\* The magnitudes of the segments: path.windows(2) mapped to |pair[1] - pair[0]|.
SegmentLengths(path) ==
    [k \in 1..(Len(path) - 1) |-> Magnitude(VSub(path[k + 1], path[k]))]

\* a.fold(0.0, +) over the first n segment lengths
RECURSIVE SumLengths(_, _)
SumLengths(lengths, n) ==
    IF n = 0 THEN R(0) ELSE Add(SumLengths(lengths, n - 1), lengths[n])

PathLength(path) ==
    IF Len(path) <= 1 THEN R(0)
    ELSE IF Len(path) = 2 THEN Magnitude(VSub(path[2], path[1]))
    ELSE SumLengths(SegmentLengths(path), Len(path) - 1)

ProjectOnLine(from, to, point) ==
    Mul(Magnitude(VSub(to, from)), Project(point, from, to))

PointOnLine(from, to, point) ==
    CHOOSE r \in
        {IF Le(p, R(0)) THEN [p |-> from, s |-> R(0)]
         ELSE IF Ge(p, R(1)) THEN [p |-> to, s |-> d]
         ELSE [p |-> Unproject(from, to, p), s |-> Mul(p, d)] :
         d \in {Magnitude(VSub(to, from))},
         p \in {Project(point, from, to)}} : TRUE

\* The pairs (arc length, squared distance) that min_by chooses from.
Candidates(path, point) ==
    CHOOSE r \in
        {[k \in 1..(Len(path) - 1) |->
            CHOOSE c \in
                {[s |-> Add(SumLengths(lengths, k - 1), on.s),
                  d2 |-> SqrMagnitude(VSub(on.p, point))] :
                 on \in {PointOnLine(path[k], path[k + 1], point)}} : TRUE] :
         lengths \in {SegmentLengths(path)}} : TRUE

\* MinBy that keeps the later of two equal candidates.
RECURSIVE MinByLast(_, _, _)
MinByLast(cands, k, best) ==
    IF k > Len(cands) THEN [kind |-> "value", value |-> best.s]
    ELSE IF IsNaN(best.d2) \/ IsNaN(cands[k].d2) THEN [kind |-> "panic"]
    ELSE CHOOSE r \in
            {MinByLast(cands, k + 1, next) :
             next \in {IF Lt(best.d2, cands[k].d2) THEN best ELSE cands[k]}} : TRUE

\* min_by(|a, b| a.partial_cmp(b).unwrap()) from candidate k on: the earlier of
\* two equal candidates is kept, and comparing a NaN aborts.
RECURSIVE MinBy(_, _, _)
MinBy(cands, k, best) ==
    IF k > Len(cands) THEN [kind |-> "value", value |-> best.s]
    ELSE IF IsNaN(best.d2) \/ IsNaN(cands[k].d2) THEN [kind |-> "panic"]
    ELSE CHOOSE r \in
            {MinBy(cands, k + 1, next) :
             next \in {IF Gt(best.d2, cands[k].d2) THEN cands[k] ELSE best}} : TRUE

\* (p + offset).max(0.0).min(path_length(path))
ClampToPath(path, p, offset) ==
    Min(Max(Add(p, offset), R(0)), PathLength(path))

\* The result of min_by, offset and clamped.
ProjectOnPathOf(path, m, offset) ==
    IF m.kind = "panic" THEN m
    ELSE [kind |-> "value", value |-> ClampToPath(path, m.value, offset)]

ProjectOnPath(path, point, offset) ==
    IF Len(path) <= 1 THEN [kind |-> "value", value |-> ClampToPath(path, R(0), offset)]
    ELSE IF Len(path) = 2
    THEN [kind |-> "value",
          value |-> ClampToPath(path, ProjectOnLine(path[1], path[2], point), offset)]
    ELSE CHOOSE r \in
            {ProjectOnPathOf(path, m, offset) :
             m \in {CHOOSE v \in {MinBy(cands, 2, cands[1]) :
                                   cands \in {Candidates(path, point)}} : TRUE}} : TRUE

\* The loop of point_on_path over path.windows(2), from segment k on.
RECURSIVE WalkPath(_, _, _)
WalkPath(path, k, s) ==
    IF k > Len(path) - 1 THEN [kind |-> "none"]
    ELSE CHOOSE r \in
            {IF Le(s, d)
             THEN [kind |-> "some", point |-> Unproject(path[k], path[k + 1], Div(s, d))]
             ELSE CHOOSE w \in {WalkPath(path, k + 1, rest) : rest \in {Sub(s, d)}} : TRUE :
             d \in {Magnitude(VSub(path[k + 1], path[k]))}} : TRUE

PointOnPath(path, s) ==
    IF Len(path) <= 1 THEN [kind |-> "none"]
    ELSE IF Len(path) = 2
    THEN [kind |-> "some",
          point |-> Unproject(path[1], path[2], Div(s, PathLength(path)))]
    ELSE WalkPath(path, 1, s)

\* Some((Self::point_on_path(path, s)?, s))
PathTargetPointOf(path, s) ==
    IF s.kind = "panic" THEN s
    ELSE CHOOSE r \in
            {IF p.kind = "none" THEN p
             ELSE [kind |-> "some", point |-> p.point, s |-> s.value] :
             p \in {PointOnPath(path, s.value)}} : TRUE

PathTargetPoint(path, point, offset) ==
    CHOOSE r \in
        {PathTargetPointOf(path, s) : s \in {ProjectOnPath(path, point, offset)}} : TRUE

(***************************************************************************)
(* Polylines for the path arithmetic                                       *)
(***************************************************************************)
\* No point, one point, one segment, a corner, a path that returns to its
\* start, a path that crosses itself in (1, 0, 0), a path off the axes, and
\* two paths with a segment of length zero.
ArithPaths ==
    {<<>>,
     <<VI(1, 0, 0)>>,
     <<VI(0, 0, 0), VI(2, 0, 0)>>,
     <<VI(0, 0, 0), VI(2, 0, 0), VI(2, 1, 0)>>,
     <<VI(0, 0, 0), VI(1, 0, 0), VI(0, 0, 0)>>,
     <<VI(0, 0, 0), VI(2, 0, 0), VI(2, 1, 0), VI(1, 1, 0), VI(1, -1, 0)>>,
     <<VI(0, 0, 0), VI(3, 4, 0), VI(3, 4, 2)>>,
     <<VI(1, 0, 0), VI(1, 0, 0)>>,
     <<VI(0, 0, 0), VI(1, 0, 0), VI(1, 0, 0), VI(2, 0, 0)>>}

\* The arc lengths tried are the multiples of 1 / Steps from -1 to MaxS.
Steps == 2

MaxS == 8

SGrid == {Q(k, Steps) : k \in (-Steps)..(MaxS * Steps)}

\* Points off the paths.
OffPoints == {VI(1, 1, 0), VI(0, 0, 1), VI(3, 0, 0)}

\* The points handed to the projections: the points point_on_path returns
\* for the path, and the points off the paths.
ArithPoints(path) ==
    {r.point : r \in {q \in {PointOnPath(path, s) : s \in SGrid} : q.kind = "some"}}
    \cup OffPoints

Offsets == {R(0), R(1), R(-1)}

InitArith ==
    /\ parallel = FALSE
    /\ input \in {[path |-> p] : p \in ArithPaths}
    /\ mesh = NoMesh
    /\ call = NoCall
    /\ ret = NoCall

\* NavMesh::path_length(path)
PathLengthCall ==
    /\ Idle
    /\ call' = [op |-> "path_length"]
    /\ ret' = [kind |-> "value", value |-> PathLength(input.path)]
    /\ UNCHANGED <<parallel, input, mesh>>

\* NavMesh::point_on_path(path, s)
PointOnPathCall ==
    /\ Idle
    /\ \E s \in SGrid :
          /\ call' = [op |-> "point_on_path", s |-> s]
          /\ ret' = PointOnPath(input.path, s)
    /\ UNCHANGED <<parallel, input, mesh>>

\* NavMesh::project_on_path(path, point, offset)
ProjectOnPathCall ==
    /\ Idle
    /\ \E point \in ArithPoints(input.path), offset \in Offsets :
          /\ call' = [op |-> "project_on_path", point |-> point, offset |-> offset]
          /\ ret' = ProjectOnPath(input.path, point, offset)
    /\ UNCHANGED <<parallel, input, mesh>>

\* NavMesh::path_target_point(path, point, offset)
PathTargetPointCall ==
    /\ Idle
    /\ \E point \in ArithPoints(input.path), offset \in Offsets :
          /\ call' = [op |-> "path_target_point", point |-> point, offset |-> offset]
          /\ ret' = PathTargetPoint(input.path, point, offset)
    /\ UNCHANGED <<parallel, input, mesh>>

NextArith ==
    PathLengthCall \/ PointOnPathCall \/ ProjectOnPathCall \/ PathTargetPointCall \/ Return

SpecArith == InitArith /\ [][NextArith]_vars

(***************************************************************************)
(* Properties of the path arithmetic, under SpecArith                      *)
(***************************************************************************)
\* The last call was project_on_path(path, point, 0) on a path of two or more
\* points.
ProjectedWithoutOffset ==
    /\ call.op = "project_on_path"
    /\ call.offset = R(0)
    /\ Len(input.path) >= 2

\* The arc lengths of the grid, within [0, path_length], at which
\* point_on_path returns the point of the call.
ArcLengthsOfPoint ==
    {s \in SGrid :
        /\ Le(R(0), s) /\ Le(s, PathLength(input.path))
        /\ PointOnPath(input.path, s) = [kind |-> "some", point |-> call.point]}

NoZeroSegment ==
    \A k \in 1..(Len(input.path) - 1) : input.path[k] # input.path[k + 1]

PointOnPathAt(s) ==
    /\ call.op = "point_on_path"
    /\ call.s = s
    /\ Len(input.path) >= 2

\* C11: for every polyline of two or more points, polylines with coincident
\* consecutive points included, point_on_path(P, 0) is the first point of P
\* and point_on_path(P, path_length(P)) is the last.
C11_Endpoints ==
    /\ PointOnPathAt(R(0)) => ret = [kind |-> "some", point |-> input.path[1]]
    /\ PointOnPathAt(PathLength(input.path)) =>
          ret = [kind |-> "some", point |-> input.path[Len(input.path)]]

\* The same on the polylines without a segment of length zero.
EndpointsNoZeroSegment == NoZeroSegment => C11_Endpoints

(***************************************************************************)
(* Completion of the triangle searches, under SpecSearch                   *)
(***************************************************************************)
TriangleSearched == call.op \in {"find_path_triangles", "find_path_triangles_custom"}

\* C12: every query on a built mesh, the triangle searches with an index
\* that is not below the number of triangles included, ends by returning a
\* value or none; none of them aborts.
C12_QueriesComplete == TriangleSearched => ret.kind \in {"some", "none"}

\* The searches whose two indices are below the number of triangles complete.
SearchCompletesInRange ==
    (TriangleSearched /\ call.from < Len(mesh.triangles) /\ call.to < Len(mesh.triangles))
        => ret.kind \in {"some", "none"}

(***************************************************************************)
(* Derived meshes: thicken and scale                                       *)
(***************************************************************************)
\* The vector a unit vector [v, l2] stands for: v / sqrt(l2), zero for zero.
Realize(u) == IF u.l2 = R(0) THEN VZero ELSE VDivS(u.v, Sqrt(u.l2))

\* The filter_map and fold of thicken over the first n triangles: the sum and
\* the number of the normals of the triangles that have vertex i in a slot.
RECURSIVE NormalSum(_, _, _)
NormalSum(m, i, n) ==
    IF n = 0 THEN [sum |-> VZero, count |-> 0]
    ELSE CHOOSE r \in
            {IF m.triangles[n].first = i \/ m.triangles[n].second = i
                \/ m.triangles[n].third = i
             THEN [sum |-> VAdd(rest.sum, Realize(m.spatials[n].normal)),
                   count |-> rest.count + 1]
             ELSE rest :
             rest \in {NormalSum(m, i, n - 1)}} : TRUE

\* *v + n.normalize() * value, with n the mean of the normals at vertex i.
ShiftedVertex(m, i, value) ==
    CHOOSE r \in
        {VAdd(At(m.vertices, i),
              VScale(Realize(Normalize(IF a.count > 1
                                       THEN VDivS(a.sum, R(a.count))
                                       ELSE a.sum)),
                     value)) :
         a \in {NormalSum(m, i, Len(m.triangles))}} : TRUE

\* ThickenResults that hands the costs of the mesh on to the derived mesh.
ThickenResultsKeepCosts(m, value, par) ==
    {IF d.built = "ok"
     THEN [d EXCEPT !.areas = [k \in 1..Len(d.areas) |->
                                  [@[k] EXCEPT !.cost = m.areas[k].cost]]]
     ELSE d :
     d \in NavMeshNew([k \in 1..Len(m.vertices) |-> ShiftedVertex(m, k - 1, value)],
                      m.triangles, par)}

\* thicken(value): the results the call can return.
ThickenResults(m, value, par) ==
    NavMeshNew([k \in 1..Len(m.vertices) |-> ShiftedVertex(m, k - 1, value)],
               m.triangles, par)

NoOrigin == [some |-> FALSE]

SomeOrigin(v) == [some |-> TRUE, value |-> v]

\* scale(value, origin): the results the call can return.
ScaleResults(m, value, origin, par) ==
    LET o == IF origin.some THEN origin.value ELSE m.origin
    IN  NavMeshNew([k \in 1..Len(m.vertices) |->
                       VAdd(VMul(VSub(m.vertices[k], o), value), o)],
                   m.triangles, par)

\* closest_point(point, query): none, or the closest point of a closest triangle.
ClosestPointResults(m, point, query) ==
    {IF t.some
     THEN [kind |-> "some", point |-> ClosestPoint(At(m.spatials, t.index), point)]
     ELSE [kind |-> "none"] :
     t \in FindClosestTriangle(m, point, query)}

(***************************************************************************)
(* Meshes for the derived meshes                                           *)
(***************************************************************************)
\* Two flat triangles on one edge that face opposite ways.
Opposed ==
    [vertices |-> SubSeq(VertexPool, 1, 5),
     triangles |-> <<Tri(0, 1, 4), Tri(0, 3, 4)>>]

\* A flat triangle and one in the plane of normal (24, 0, 7) / 25 on the
\* edge (0, 1): the mean of the two unit normals has a rational length.
Folded ==
    [vertices |-> <<VI(0, 0, 0), VI(0, 1, 0), VI(-1, 0, 0), VI(7, 0, -24)>>,
     triangles |-> <<Tri(0, 1, 2), Tri(0, 3, 1)>>]

DeriveInputs == {Empty, Single, Flat, Opposed, Folded, Ring}

ThickenValues == {R(0), R(1), Q(-1, 2)}

ScaleValues == {VI(1, 1, 1), VI(2, 2, 2), VI(0, 0, 0), Vec(R(1), R(-1), Q(1, 2))}

ScaleOrigins == {NoOrigin, SomeOrigin(VI(1, 0, 0))}

InitDerive ==
    /\ parallel \in BOOLEAN
    /\ input \in DeriveInputs
    /\ mesh = NoMesh
    /\ call = NoCall
    /\ ret = NoCall

\* The value of a call that returns NavResult<NavMesh>.
BuildResult(d) == [kind |-> IF d.built = "ok" THEN "ok" ELSE "err", mesh |-> d]

\* thicken(value)
Thicken ==
    /\ Idle
    /\ mesh.built = "ok"
    /\ \E value \in ThickenValues :
          /\ call' = [op |-> "thicken", value |-> value]
          /\ \E d \in ThickenResults(mesh, value, parallel) : ret' = BuildResult(d)
    /\ UNCHANGED <<parallel, input, mesh>>

\* scale(value, origin)
Scale ==
    /\ Idle
    /\ mesh.built = "ok"
    /\ \E value \in ScaleValues, origin \in ScaleOrigins :
          /\ call' = [op |-> "scale", value |-> value, origin |-> origin]
          /\ \E d \in ScaleResults(mesh, value, origin, parallel) : ret' = BuildResult(d)
    /\ UNCHANGED <<parallel, input, mesh>>

\* closest_point(point, query)
ClosestPointQuery ==
    /\ Idle
    /\ mesh.built = "ok"
    /\ \E point \in PointPool, query \in Queries :
          /\ call' = [op |-> "closest_point", point |-> point, query |-> query]
          /\ ret' \in ClosestPointResults(mesh, point, query)
    /\ UNCHANGED <<parallel, input, mesh>>

NextDerive ==
    New \/ SetAreaCost \/ Thicken \/ Scale \/ ClosestPointQuery \/ FindPathTriangles
    \/ Return

SpecDerive == InitDerive /\ [][NextDerive]_vars

(***************************************************************************)
(* Properties of the calls on a built mesh, under SpecDerive               *)
(***************************************************************************)
\* What the mesh holds next to the costs of its areas.
Frame(m) ==
    [vertices |-> m.vertices, triangles |-> m.triangles,
     connections |-> m.connections, graph |-> m.graph,
     hard_edges |-> m.hard_edges, origin |-> m.origin,
     areas |-> [k \in 1..Len(m.areas) |->
                  [triangle |-> m.areas[k].triangle, center |-> m.areas[k].center]]]

\* C13: no query, set_area_cost, thicken or scale on a built mesh changes its
\* vertices, triangles, connection map, graph, boundary-edge map, origin or
\* an area field other than cost; a cost changes only in a set_area_cost
\* call and only for the area of its index; thicken and scale leave the
\* mesh they are called on, its costs included, as it was.
C13_Frame ==
    [][mesh.built = "ok" =>
         /\ Frame(mesh') = Frame(mesh)
         /\ \A k \in 1..Len(mesh.areas) :
               mesh'.areas[k].cost # mesh.areas[k].cost =>
                   call'.op = "set_area_cost" /\ call'.index = k - 1]_vars

\* thicken has returned a mesh of moved vertices for a mesh with a changed cost.
C13_Witness ==
    /\ call.op = "thicken"
    /\ ret.kind = "ok"
    /\ ret.mesh.vertices # mesh.vertices
    /\ Changed(mesh) # {}
    /\ Len(mesh.areas) >= 2

Derived == call.op \in {"thicken", "scale"}

\* C20: thicken and scale on a built mesh, whatever costs were set on it,
\* return a mesh (never a build error) with the same triangles and the same
\* number of vertices in which the cost of every area is the default 1.
C20_DerivedCosts ==
    Derived =>
        /\ ret.kind = "ok"
        /\ ret.mesh.triangles = mesh.triangles
        /\ Len(ret.mesh.vertices) = Len(mesh.vertices)
        /\ \A k \in 1..Len(ret.mesh.areas) : ret.mesh.areas[k].cost = R(1)

\* scale by 2 has returned a mesh for a mesh whose costs are all changed.
C20_Witness ==
    /\ call.op = "scale"
    /\ call.value = VI(2, 2, 2)
    /\ ret.kind = "ok"
    /\ ret.mesh.vertices # mesh.vertices
    /\ Len(mesh.areas) >= 2
    /\ \A k \in 1..Len(mesh.areas) : mesh.areas[k].cost # R(1)

\* thicken by 1 on the folded pair moves the vertices of the shared edge
\* along (3/5, 0, 4/5), the normalized mean of the two face normals.
ThickenFolded ==
    (call.op = "thicken" /\ call.value = R(1) /\ input = Folded) =>
        /\ ret.mesh.vertices[1] = Vec(Q(3, 5), R(0), Q(4, 5))
        /\ ret.mesh.vertices[2] = Vec(Q(3, 5), R(1), Q(4, 5))
        /\ ret.mesh.vertices[3] = VI(-1, 0, 1)

(***************************************************************************)
(* Properties of set_area_cost and of the costs, under SpecSearch          *)
(***************************************************************************)
\* The step is a set_area_cost call with an index below the number of areas.
CostSet == call'.op = "set_area_cost" /\ call'.index < Len(mesh.areas)

\* C14: after build and any set_area_cost calls, with negative costs among
\* them, the cost of every area is >= 0; it is 1 after build, max(c, 0)
\* after set_area_cost(i, c) for area i and what it was for every other
\* area, so it is max(c, 0) for the last c assigned and 1 if none was; and
\* the call returns the cost the area had before it.
C14_ClampedCosts ==
    /\ [](Built => \A k \in 1..Len(mesh.areas) : Ge(mesh.areas[k].cost, R(0)))
    /\ [][(~Built /\ Built') =>
             \A k \in 1..Len(mesh'.areas) : mesh'.areas[k].cost = R(1)]_vars
    /\ [][Built =>
             /\ \A k \in 1..Len(mesh.areas) :
                   mesh'.areas[k].cost =
                       IF CostSet /\ call'.index = k - 1
                       THEN Max(call'.cost, R(0))
                       ELSE mesh.areas[k].cost
             /\ CostSet =>
                   ret' = [kind |-> "value", old |-> mesh.areas[call'.index + 1].cost]]_vars

\* A negative cost has been assigned to an area whose cost had been set to 3.
C14_Witness ==
    /\ call.op = "set_area_cost"
    /\ call.cost = R(-1)
    /\ ret = [kind |-> "value", old |-> R(3)]
    /\ mesh.areas[call.index + 1].cost = R(0)

\* The mesh with every cost at the default.
DefaultCosts(m) ==
    [m EXCEPT !.areas = [k \in 1..Len(m.areas) |-> [@[k] EXCEPT !.cost = R(1)]]]

\* The step is a set_area_cost call that does not lower the cost of its area.
CostRaised ==
    /\ CostSet
    /\ Le(mesh.areas[call'.index + 1].cost, mesh'.areas[call'.index + 1].cost)

\* C15: when set_area_cost raises the cost of a triangle, for every pair of
\* triangles i, j with a corridor between them find_path_triangles(i, j)
\* still returns a corridor and reports a cost that is not below the cost it
\* reported before the call.
C15_CostMonotone ==
    [][(Built /\ CostRaised) =>
          \A i \in Indices(mesh.triangles), j \in Indices(mesh.triangles), tie \in Ties :
              \E before \in {FindPathTrianglesResult(mesh, i, j, tie)},
                 after \in {FindPathTrianglesResult(mesh', i, j, tie)} :
                  before.kind = "some" =>
                      /\ after.kind = "some"
                      /\ ~CostLt(after.cost, before.cost)]_vars

\* A search over a corridor with a raised cost on it reports more than the
\* search between the same triangles does with the default costs.
C15_Witness ==
    /\ call.op = "find_path_triangles"
    /\ ret.kind = "some"
    /\ \E k \in 1..Len(ret.path) : At(mesh.areas, ret.path[k]).cost = R(3)
    /\ \A k \in 1..Len(mesh.areas) : Ge(mesh.areas[k].cost, R(1))
    /\ \E d \in {FindPathTrianglesResult(DefaultCosts(mesh), call.from, call.to, call.tie)} :
          d.kind = "some" /\ CostLt(d.cost, ret.cost)

\* The last call was a triangle search from a triangle of the mesh to itself.
SearchedToItself ==
    /\ TriangleSearched
    /\ call.from = call.to
    /\ call.from < Len(mesh.triangles)

\* C16: for every triangle i of a built mesh, every assignment of costs and
\* every filter, the filter that rejects every edge included,
\* find_path_triangles(i, i) and find_path_triangles_custom(i, i, filter)
\* return the corridor [i] with cost 0.
C16_SelfCorridor ==
    SearchedToItself =>
        /\ ret.kind = "some"
        /\ ret.path = <<call.from>>
        /\ ret.cost = R(0)

\* A search from a triangle with neighbours to itself, under the filter that
\* rejects every edge and with a changed cost on the triangle.
C16_Witness ==
    /\ SearchedToItself
    /\ call.op = "find_path_triangles_custom"
    /\ call.filter # {}
    /\ call.filter = RejectAll(mesh)
    /\ call.from \in Changed(mesh)
    /\ ret.kind = "some"

(***************************************************************************)
(* Path queries between equal points, under SpecPath                       *)
(***************************************************************************)
\* The last call was a path query whose two points are equal within
\* ZERO_TRESHOLD in every coordinate.
QueriedSamePoint ==
    /\ call.op \in {"find_path", "find_path_custom"}
    /\ SameAs(call.from, call.to)

\* C17: find_path and find_path_custom return none when from and to are
\* equal within ZERO_TRESHOLD in every coordinate, on every mesh (an empty
\* one included), for every query quality, path mode and filter, and they
\* then call neither the filter nor find_closest_triangle.
C17_SamePointNone ==
    QueriedSamePoint => ret = [kind |-> "none", calls |-> 0, lookups |-> 0]

\* A query between two different points less than ZERO_TRESHOLD apart, on a
\* mesh with connected triangles, has returned none.
C17_Witness ==
    /\ QueriedSamePoint
    /\ call.from # call.to
    /\ call.op = "find_path_custom"
    /\ DOMAIN mesh.connections # {}
    /\ ret.kind = "none"

(***************************************************************************)
(* Clamping of the path arithmetic, under SpecArith                        *)
(***************************************************************************)
\* C18: for every polyline, polylines of no and of one point included, every
\* point and every offset, project_on_path returns an s with
\* 0 <= s <= path_length(path); and point_on_path(path, s) returns none for
\* every s above path_length(path) on a path of three or more points.
C18_Clamped ==
    /\ call.op = "project_on_path" =>
          /\ ret.kind = "value"
          /\ Le(R(0), ret.value)
          /\ Le(ret.value, PathLength(input.path))
    /\ (call.op = "point_on_path" /\ Len(input.path) >= 3
        /\ Gt(call.s, PathLength(input.path))) => ret.kind = "none"

\* The same on the polylines without a segment of length zero between three
\* or more points.
ClampedNoZeroSegment == (Len(input.path) <= 2 \/ NoZeroSegment) => C18_Clamped

(***************************************************************************)
(* Corridors and the connection map                                        *)
(***************************************************************************)
\* Every two consecutive triangles of p are a key of the connection map.
PortalsAreKeys(m, p) ==
    \A k \in 1..(Len(p) - 1) : NavConnection(p[k], p[k + 1]) \in DOMAIN m.connections

\* C19: for every built mesh, cost assignment and filter, every two
\* consecutive triangles of a corridor that find_path_triangles_custom (and
\* with it find_path_triangles) returns are a key of the connection map, so
\* the lookups connections[(T_i, T_i+1)] of the two refinements succeed.
C19_CorridorPortals ==
    (TriangleSearched /\ ret.kind = "some") => PortalsAreKeys(mesh, ret.path)

\* A corridor of three or more triangles found under a filter that rejects
\* something, on a mesh with a changed cost.
C19_Witness ==
    /\ call.op = "find_path_triangles_custom"
    /\ call.filter # {}
    /\ Changed(mesh) # {}
    /\ ret.kind = "some"
    /\ Len(ret.path) >= 3
    /\ PortalsAreKeys(mesh, ret.path)

\* Under SpecPath: the corridor a returned path was refined from has its
\* portals in the connection map.
RefinedPortals == PathReturned => PortalsAreKeys(mesh, ret.triangles)

=============================================================================
